---- MODULE Spec2Model ----
(***************************************************************************)
(* Model of backend-example.js: the Express handlers POST /api/submit-form *)
(* and GET /health, with the nodemailer transport as the environment.      *)
(*                                                                         *)
(* A request body is a record of six JavaScript values, as express.json()  *)
(* hands them to the handler, and a flag telling whether req.body was set  *)
(* at all.  A string is the sequence of its UTF-16 code units.  A          *)
(* JavaScript value is [kind, val]:                                        *)
(*   kind "undefined", "null"          val = <<>>                          *)
(*   kind "boolean", "number"          val = the string String(v)          *)
(*   kind "string"                     val = the string                    *)
(*   kind "array"                      val = the sequence of its elements  *)
(*   kind "object"                     val = the own keys of the object    *)
(* An object whose own key "toString" holds a JSON value, which is never   *)
(* callable, has no primitive conversion: String(v) throws a TypeError.    *)
(***************************************************************************)
EXTENDS Integers, Sequences, FiniteSets

\* ------------------------------------------------------------------ bounds
NumReq == 2   \* request slots handled in one run
MaxLen == 5   \* longest email string enumerated
MaxTime == 1  \* clock values GET /health can observe

Requests == 1..NumReq
Times == 0..MaxTime

\* ------------------------------------------------------- JavaScript values
Undefined == [kind |-> "undefined", val |-> <<>>]
Null == [kind |-> "null", val |-> <<>>]
JSFalse == [kind |-> "boolean", val |-> <<102, 97, 108, 115, 101>>]   \* "false"
JSTrue == [kind |-> "boolean", val |-> <<116, 114, 117, 101>>]   \* "true"
JSZero == [kind |-> "number", val |-> <<48>>]   \* "0"
JSOne == [kind |-> "number", val |-> <<49>>]   \* "1"
PlainObject == [kind |-> "object", val |-> <<>>]
NoPrimitiveObject == [kind |-> "object", val |-> <<"toString">>]

Str(s) == [kind |-> "string", val |-> s]
Array(items) == [kind |-> "array", val |-> items]

\* !v
Falsy(v) ==
    \/ v.kind \in {"undefined", "null"}
    \/ v.kind = "boolean" /\ v = JSFalse
    \/ v.kind = "number" /\ v = JSZero
    \/ v.kind = "string" /\ v.val = <<>>

Truthy(v) == ~Falsy(v)

\* String(v) throws.  For an object OrdinaryToPrimitive finds no callable
\* toString and Object.prototype.valueOf returns the object itself; for an
\* array Array.prototype.join converts every element that is neither
\* undefined nor null.
RECURSIVE ToStringThrows(_)
ToStringThrows(v) ==
    \/ v.kind = "object" /\ \E i \in 1..Len(v.val) : v.val[i] = "toString"
    \/ v.kind = "array" /\ \E i \in 1..Len(v.val) :
          v.val[i].kind \notin {"undefined", "null"} /\ ToStringThrows(v.val[i])

\* String(v), defined where ToStringThrows(v) is false.
RECURSIVE ToString(_)
RECURSIVE Join(_, _)

\* the elements items[i..] joined by ","
Join(items, i) ==
    IF i > Len(items) THEN <<>>
    ELSE (IF items[i].kind \in {"undefined", "null"}
          THEN <<>> ELSE ToString(items[i]))
         \o (IF i < Len(items) THEN <<44>> \o Join(items, i + 1) ELSE <<>>)

ToString(v) ==
    CASE v.kind = "undefined" -> <<117, 110, 100, 101, 102, 105, 110, 101, 100>>   \* "undefined"
      [] v.kind = "null" -> <<110, 117, 108, 108>>   \* "null"
      [] v.kind = "object" ->
            <<91, 111, 98, 106, 101, 99, 116, 32, 79, 98, 106, 101, 99, 116, 93>>   \* "[object Object]"
      [] v.kind = "array" -> Join(v.val, 1)
      [] OTHER -> v.val

\* ------------------------------------------------------------ emailRegex
\* /^[^\s@]+@[^\s@]+\.[^\s@]+$/
\* \s: tab, LF, VT, FF, CR, space, U+00A0, U+1680, U+2000..U+200A, U+2028,
\* U+2029, U+202F, U+205F, U+3000, U+FEFF
IsSpace(c) ==
    \/ c \in {9, 10, 11, 12, 13, 32, 160, 5760, 8232, 8233, 8239, 8287,
              12288, 65279}
    \/ c \in 8192..8202

\* [^\s@]
NotSpaceAt(c) == ~IsSpace(c) /\ c # 64

\* [^\s@]+ matches s[lo..hi] entirely
ClassRun(s, lo, hi) ==
    /\ lo <= hi
    /\ \A k \in lo..hi : NotSpaceAt(s[k])

\* emailRegex.test(s) for a string s
emailRegexTest(s) ==
    \E i \in 1..Len(s) : \E j \in 1..Len(s) :
        /\ i < j
        /\ s[i] = 64
        /\ s[j] = 46
        /\ ClassRun(s, 1, i - 1)
        /\ ClassRun(s, i + 1, j - 1)
        /\ ClassRun(s, j + 1, Len(s))

\* ------------------------------------------------------------------ state
VARIABLES
    pc,             \* pc[r]: where the handler of request r stands
    body,           \* body[r]: req.body of request r
    calls,          \* calls[r]: the transporter.sendMail calls of request r, in order
    settled,        \* settled[r]: how those calls settled (TRUE resolved, FALSE rejected)
    responses,      \* responses[r]: what was written to res, in order
    errlog,         \* errlog[r]: what console.error logged for request r
    transportUp,    \* whether the mail transport currently delivers
    recipientEmail, \* process.env.RECIPIENT_EMAIL
    healthResp      \* the last response of GET /health (a sequence of length <= 1)

vars == <<pc, body, calls, settled, responses, errlog, transportUp,
          recipientEmail, healthResp>>

\* what POST /api/submit-form reads and writes
formVars == <<pc, body, calls, settled, responses, errlog>>

\* req.body = {}
EmptyBody ==
    [parsed |-> TRUE,
     name |-> Undefined, email |-> Undefined, website |-> Undefined,
     phone |-> Undefined, service |-> Undefined, message |-> Undefined]

\* req.body = undefined: no body parser set it (express 5 leaves it unset for
\* a request without a parsed body, express 4 sets {})
NoBody == [EmptyBody EXCEPT !.parsed = FALSE]

\* 'hello@markgrow.com'
DefaultRecipient ==
    Str(<<104, 101, 108, 108, 111, 64, 109, 97, 114, 107, 103, 114, 111, 119, 46, 99, 111, 109>>)

\* --------------------------------------------------------------- responses
MissingFieldsResponse ==
    [status |-> 400, success |-> FALSE, text |-> "Missing required fields"]

InvalidEmailResponse ==
    [status |-> 400, success |-> FALSE, text |-> "Invalid email address"]

SuccessResponse ==
    [status |-> 200, success |-> TRUE, text |-> "Form submitted successfully"]

ServerErrorResponse ==
    [status |-> 500, success |-> FALSE,
     text |-> "Internal server error. Please try again later."]

\* ------------------------------------------------------------- the handler
\* !name || !email || !website
MissingRequired(b) == Falsy(b.name) \/ Falsy(b.email) \/ Falsy(b.website)

\* the template literals of mailOptions throw on a value without a primitive
\* conversion; phone and message are interpolated only when truthy, service
\* only when truthy (service || 'Not specified')
TemplateThrows(b) ==
    \/ ToStringThrows(b.name)
    \/ ToStringThrows(b.email)
    \/ ToStringThrows(b.website)
    \/ Truthy(b.phone) /\ ToStringThrows(b.phone)
    \/ Truthy(b.service) /\ ToStringThrows(b.service)
    \/ Truthy(b.message) /\ ToStringThrows(b.message)

\* the notification message
mailOptions(b) ==
    [to |-> IF Truthy(recipientEmail) THEN recipientEmail ELSE DefaultRecipient,
     subject |-> "New SEO Audit Request from",
     replyTo |-> b.email,
     html |-> {"name", "email", "website", "service"}
              \cup (IF Truthy(b.phone) THEN {"phone"} ELSE {})
              \cup (IF Truthy(b.message) THEN {"message"} ELSE {})]

\* the confirmation message
confirmationEmail(b) ==
    [to |-> b.email,
     subject |-> "Thank you for your SEO audit request - MarkGrow",
     replyTo |-> Undefined,
     html |-> {"name", "website"}]

\* the handler responds before any await: the response and what was logged
RespondAtEntry(resp, logged) ==
    [pc |-> "done", calls |-> <<>>, responses |-> <<resp>>, errlog |-> logged]

\* the handler reaches await transporter.sendMail(mailOptions)
SendNotification(b) ==
    [pc |-> "await_notification", calls |-> <<mailOptions(b)>>,
     responses |-> <<>>, errlog |-> <<>>]

\* a handler that remembers the bodies it has seen and answers a repeated one
\* without sending again
HandlerEntryDedup(b) ==
    IF ~b.parsed
    THEN RespondAtEntry(ServerErrorResponse, <<"TypeError">>)
    ELSE IF MissingRequired(b)
    THEN RespondAtEntry(MissingFieldsResponse, <<>>)
    ELSE IF ToStringThrows(b.email)
    THEN RespondAtEntry(ServerErrorResponse, <<"TypeError">>)
    ELSE IF ~emailRegexTest(ToString(b.email))
    THEN RespondAtEntry(InvalidEmailResponse, <<>>)
    ELSE IF TemplateThrows(b)
    THEN RespondAtEntry(ServerErrorResponse, <<"TypeError">>)
    ELSE IF \E q \in Requests : pc[q] # "idle" /\ body[q] = b
    THEN RespondAtEntry(SuccessResponse, <<>>)
    ELSE SendNotification(b)

\* a handler whose email check responds 400 without returning
HandlerEntryNoReturn(b) ==
    IF ~b.parsed
    THEN RespondAtEntry(ServerErrorResponse, <<"TypeError">>)
    ELSE IF MissingRequired(b)
    THEN RespondAtEntry(MissingFieldsResponse, <<>>)
    ELSE IF ToStringThrows(b.email)
    THEN RespondAtEntry(ServerErrorResponse, <<"TypeError">>)
    ELSE IF TemplateThrows(b)
    THEN RespondAtEntry(ServerErrorResponse, <<"TypeError">>)
    ELSE IF ~emailRegexTest(ToString(b.email))
    THEN [SendNotification(b) EXCEPT !.responses = <<InvalidEmailResponse>>]
    ELSE SendNotification(b)

\* The synchronous part of the handler, from its entry to the first await or
\* to the response: where it stops, the sendMail calls made, the response
\* written and what the catch block logged.  Destructuring req.body throws
\* when req.body is undefined; the try block covers it.
HandlerEntry(b) ==
    IF ~b.parsed
    THEN RespondAtEntry(ServerErrorResponse, <<"TypeError">>)
    ELSE IF MissingRequired(b)
    THEN RespondAtEntry(MissingFieldsResponse, <<>>)
    ELSE IF ToStringThrows(b.email)
    THEN RespondAtEntry(ServerErrorResponse, <<"TypeError">>)
    ELSE IF ~emailRegexTest(ToString(b.email))
    THEN RespondAtEntry(InvalidEmailResponse, <<>>)
    ELSE IF TemplateThrows(b)
    THEN RespondAtEntry(ServerErrorResponse, <<"TypeError">>)
    ELSE SendNotification(b)

\* POST /api/submit-form arrives with body b and runs to its first await
SubmitForm(r, b) ==
    /\ pc[r] = "idle"
    /\ LET e == HandlerEntry(b) IN
        /\ pc' = [pc EXCEPT ![r] = e.pc]
        /\ calls' = [calls EXCEPT ![r] = e.calls]
        /\ responses' = [responses EXCEPT ![r] = e.responses]
        /\ errlog' = [errlog EXCEPT ![r] = e.errlog]
    /\ body' = [body EXCEPT ![r] = b]
    /\ UNCHANGED <<settled, transportUp, recipientEmail, healthResp>>

\* the most recently numbered request that has arrived
LatestRequest == CHOOSE q \in Requests :
    pc[q] # "idle" /\ \A q2 \in Requests : pc[q2] # "idle" => q2 <= q

\* a handler that keeps the submission in a module-level variable, which the
\* latest request overwrites
AfterResolveSharedBody(r) ==
    IF pc[r] = "await_notification"
    THEN [pc |-> "await_confirmation",
          calls |-> Append(calls[r], confirmationEmail(body[LatestRequest])),
          responses |-> responses[r]]
    ELSE [pc |-> "done", calls |-> calls[r],
          responses |-> Append(responses[r], SuccessResponse)]

\* The handler after an awaited sendMail resolved: the next sendMail call, or
\* the success response.
AfterResolve(r) ==
    IF pc[r] = "await_notification"
    THEN [pc |-> "await_confirmation",
          calls |-> Append(calls[r], confirmationEmail(body[r])),
          responses |-> responses[r]]
    ELSE [pc |-> "done", calls |-> calls[r],
          responses |-> Append(responses[r], SuccessResponse)]

\* the awaited sendMail of request r resolves and the handler resumes
SendMailResolves(r) ==
    /\ pc[r] \in {"await_notification", "await_confirmation"}
    /\ transportUp
    /\ settled' = [settled EXCEPT ![r] = Append(@, TRUE)]
    /\ LET a == AfterResolve(r) IN
        /\ pc' = [pc EXCEPT ![r] = a.pc]
        /\ calls' = [calls EXCEPT ![r] = a.calls]
        /\ responses' = [responses EXCEPT ![r] = a.responses]
    /\ UNCHANGED <<body, errlog, transportUp, recipientEmail, healthResp>>

\* a catch block that sends the failed message once more
AfterRejectRetries(r) ==
    IF Len(calls[r]) < 3
    THEN [pc |-> pc[r], calls |-> Append(calls[r], calls[r][Len(calls[r])]),
          responses |-> responses[r],
          errlog |-> Append(errlog[r], "TransportError")]
    ELSE [pc |-> "done", calls |-> calls[r],
          responses |-> Append(responses[r], ServerErrorResponse),
          errlog |-> Append(errlog[r], "TransportError")]

\* a handler that catches the failure of the notification alone and goes on
\* to the confirmation
AfterRejectContinues(r) ==
    IF pc[r] = "await_notification"
    THEN [pc |-> "await_confirmation",
          calls |-> Append(calls[r], confirmationEmail(body[r])),
          responses |-> responses[r],
          errlog |-> Append(errlog[r], "TransportError")]
    ELSE [pc |-> "done", calls |-> calls[r],
          responses |-> Append(responses[r], ServerErrorResponse),
          errlog |-> Append(errlog[r], "TransportError")]

\* a catch block that reports success once the notification is out
AfterRejectPartialSuccess(r) ==
    [pc |-> "done", calls |-> calls[r],
     responses |-> Append(responses[r],
                          IF pc[r] = "await_confirmation"
                          THEN SuccessResponse ELSE ServerErrorResponse),
     errlog |-> Append(errlog[r], "TransportError")]

\* The catch block after an awaited sendMail rejected.
AfterReject(r) ==
    [pc |-> "done", calls |-> calls[r],
     responses |-> Append(responses[r], ServerErrorResponse),
     errlog |-> Append(errlog[r], "TransportError")]

\* the awaited sendMail of request r rejects and the catch block runs
SendMailRejects(r) ==
    /\ pc[r] \in {"await_notification", "await_confirmation"}
    /\ ~transportUp
    /\ settled' = [settled EXCEPT ![r] = Append(@, FALSE)]
    /\ LET a == AfterReject(r) IN
        /\ pc' = [pc EXCEPT ![r] = a.pc]
        /\ calls' = [calls EXCEPT ![r] = a.calls]
        /\ responses' = [responses EXCEPT ![r] = a.responses]
        /\ errlog' = [errlog EXCEPT ![r] = a.errlog]
    /\ UNCHANGED <<body, transportUp, recipientEmail, healthResp>>

\* the body of the /health response at time t
HealthBody(t) == [status |-> 200, state |-> "ok", timestamp |-> t]

\* a health check that reports the state of the mail transport
HealthChecksTransport(t) ==
    /\ healthResp' = <<[HealthBody(t) EXCEPT
                           !.status = IF transportUp THEN 200 ELSE 503]>>
    /\ UNCHANGED <<pc, body, calls, settled, responses, errlog, transportUp,
                   recipientEmail>>

\* GET /health at time t
Health(t) ==
    /\ healthResp' = <<HealthBody(t)>>
    /\ UNCHANGED <<pc, body, calls, settled, responses, errlog, transportUp,
                   recipientEmail>>

\* the mail transport goes down or comes back
TransportChanges ==
    /\ transportUp' = ~transportUp
    /\ UNCHANGED <<pc, body, calls, settled, responses, errlog,
                   recipientEmail, healthResp>>

\* ----------------------------------------------------------------- inputs
\* "a", "@", ".", " "
Alphabet == {97, 64, 46, 32}

RECURSIVE StringsUpTo(_)
StringsUpTo(n) ==
    IF n = 0 THEN {<<>>}
    ELSE LET shorter == StringsUpTo(n - 1) IN
         shorter \cup {Append(s, c) : s \in {p \in shorter : Len(p) = n - 1},
                                      c \in Alphabet}

GoodEmail == Str(<<97, 64, 97, 46, 97>>)   \* "a@a.a"
OtherEmail == Str(<<97, 97, 64, 97, 46, 97>>)   \* "aa@a.a"
BadEmail == Str(<<97>>)   \* "a"
SomeText == Str(<<97>>)   \* "a"

\* emails holding whitespace other than the space: form feed, vertical tab,
\* U+00A0, U+2028, U+3000, U+FEFF
OddSpaceEmails ==
    {Str(<<97, c, 64, 97, 46, 97>>) : c \in {9, 11, 12, 160, 8232, 12288}}
    \cup {Str(<<97, 64, 97, 46, 65279>>), Str(<<8195, 64, 97, 46, 97>>)}

\* [], ["a@a.a"], ["a", "a"], [null], [{"toString": 0}], [["a@a.a"]]
Arrays ==
    {Array(<<>>), Array(<<GoodEmail>>), Array(<<SomeText, SomeText>>),
     Array(<<Null>>), Array(<<NoPrimitiveObject>>),
     Array(<<Array(<<GoodEmail>>)>>)}

NonStrings ==
    {Undefined, Null, JSFalse, JSTrue, JSZero, JSOne, PlainObject,
     NoPrimitiveObject} \cup Arrays

\* every kind of JSON value a field can hold
FieldValues ==
    {Undefined, Null, JSFalse, JSTrue, JSZero, JSOne, PlainObject,
     NoPrimitiveObject, Str(<<>>), SomeText, Array(<<>>),
     Array(<<NoPrimitiveObject>>)}

OptionalValues ==
    {Undefined, SomeText, NoPrimitiveObject, Array(<<NoPrimitiveObject>>)}

\* bodies that differ in the email alone
EmailBodies ==
    {[EmptyBody EXCEPT !.name = SomeText, !.email = e, !.website = SomeText] :
        e \in NonStrings \cup OddSpaceEmails
              \cup {Str(s) : s \in StringsUpTo(MaxLen)}}

\* bodies that differ in the kind of value each field holds
FieldBodies ==
    {[parsed |-> TRUE, name |-> n, email |-> e, website |-> w, phone |-> p,
      service |-> s, message |-> m] :
        n \in FieldValues, e \in {GoodEmail, BadEmail}, w \in FieldValues,
        p \in OptionalValues, s \in OptionalValues, m \in OptionalValues}

WideBodies == EmailBodies \cup FieldBodies \cup {NoBody}

\* the bodies submitted when several requests run together
Bodies ==
    {[EmptyBody EXCEPT !.name = n, !.email = e, !.website = w] :
        n \in {Undefined, SomeText, NoPrimitiveObject},
        e \in {GoodEmail, OtherEmail, BadEmail},
        w \in {Null, SomeText}}
    \cup {NoBody}

\* unset, "", "o@p.q"
RecipientSettings ==
    {Undefined, Str(<<>>), Str(<<111, 64, 112, 46, 113>>)}

\* ----------------------------------------------------------- specification
Init ==
    /\ pc = [r \in Requests |-> "idle"]
    /\ body = [r \in Requests |-> EmptyBody]
    /\ calls = [r \in Requests |-> <<>>]
    /\ settled = [r \in Requests |-> <<>>]
    /\ responses = [r \in Requests |-> <<>>]
    /\ errlog = [r \in Requests |-> <<>>]
    /\ transportUp \in BOOLEAN
    /\ recipientEmail \in RecipientSettings
    /\ healthResp = <<>>

Next ==
    \/ \E r \in Requests : pc[r] = "idle" /\ \E b \in Bodies : SubmitForm(r, b)
    \/ \E r \in Requests : SendMailResolves(r)
    \/ \E r \in Requests : SendMailRejects(r)
    \/ \E t \in Times : Health(t)
    \/ TransportChanges

Spec == Init /\ [][Next]_vars

\* one request at a time, over the wide range of bodies
NextWide ==
    \/ pc[1] = "idle" /\ \E b \in WideBodies : SubmitForm(1, b)
    \/ SendMailResolves(1)
    \/ SendMailRejects(1)
    \/ \E t \in Times : Health(t)
    \/ TransportChanges

SpecWide == Init /\ [][NextWide]_vars

\* ------------------------------------------------------------- properties
Arrived(r) == pc[r] # "idle"

\* the field is absent from the body or holds the empty string
MissingOrEmpty(v) == v = Undefined \/ v = Str(<<>>)

\* the value, as a string, matches the address pattern
EmailMatches(v) == ~ToStringThrows(v) /\ emailRegexTest(ToString(v))

\* the body passes both checks of the validation step
PassesValidation(b) ==
    /\ Truthy(b.name) /\ Truthy(b.email) /\ Truthy(b.website)
    /\ EmailMatches(b.email)

NonEmptyString(v) == v.kind = "string" /\ v.val # <<>>

\* name, email and website are non-empty strings and email matches the
\* address pattern
ValidSubmission(b) ==
    /\ NonEmptyString(b.name)
    /\ NonEmptyString(b.email)
    /\ NonEmptyString(b.website)
    /\ emailRegexTest(b.email.val)

\* every field of the body has a string conversion
Convertible(b) ==
    \A v \in {b.name, b.email, b.website, b.phone, b.service, b.message} :
        ~ToStringThrows(v)

IsNotification(m) == m.subject = "New SEO Audit Request from"
IsConfirmation(m) ==
    m.subject = "Thank you for your SEO audit request - MarkGrow"

\* RECIPIENT_EMAIL, or the fixed default when it is unset or empty
OperatorAddress ==
    IF recipientEmail = Undefined \/ recipientEmail = Str(<<>>)
    THEN DefaultRecipient ELSE recipientEmail

AllResolved(r) == \A i \in 1..Len(settled[r]) : settled[r][i]
Failed(r) == \E i \in 1..Len(settled[r]) : ~settled[r][i]
Awaiting(r) == pc[r] \in {"await_notification", "await_confirmation"}

\* the one response of request r has this status
RespondedOnce(r, status) ==
    Len(responses[r]) = 1 /\ responses[r][1].status = status

\* C1: a request whose body lacks name, email or website, or holds the empty
\* string for one of them, is answered 400 with success false, and no
\* sendMail call is ever made for it.
C1_MissingFieldRejected ==
    \A r \in Requests :
        (/\ Arrived(r)
         /\ \/ MissingOrEmpty(body[r].name)
            \/ MissingOrEmpty(body[r].email)
            \/ MissingOrEmpty(body[r].website))
        => /\ pc[r] = "done"
           /\ RespondedOnce(r, 400)
           /\ responses[r][1].success = FALSE
           /\ calls[r] = <<>>
           /\ settled[r] = <<>>

\* C1 for requests whose body was parsed into an object: what the handler
\* does guarantee.
C1_ParsedBodyRejected ==
    \A r \in Requests :
        (/\ Arrived(r)
         /\ body[r].parsed
         /\ \/ MissingOrEmpty(body[r].name)
            \/ MissingOrEmpty(body[r].email)
            \/ MissingOrEmpty(body[r].website))
        => /\ pc[r] = "done"
           /\ RespondedOnce(r, 400)
           /\ responses[r][1].success = FALSE
           /\ calls[r] = <<>>
           /\ settled[r] = <<>>

\* C2: a request with name, email and website all present whose email does
\* not match the address pattern is answered 400 at once, and no email is
\* sent for it.
C2_InvalidEmailRejected ==
    \A r \in Requests :
        (/\ Arrived(r)
         /\ ~MissingOrEmpty(body[r].name)
         /\ ~MissingOrEmpty(body[r].email)
         /\ ~MissingOrEmpty(body[r].website)
         /\ ~EmailMatches(body[r].email))
        => /\ pc[r] = "done"
           /\ RespondedOnce(r, 400)
           /\ responses[r][1].success = FALSE
           /\ calls[r] = <<>>

\* C2 restricted to emails that have a string conversion: what the handler
\* does guarantee.
C2_ConvertibleEmailRejected ==
    \A r \in Requests :
        (/\ Arrived(r)
         /\ ~MissingOrEmpty(body[r].name)
         /\ ~MissingOrEmpty(body[r].email)
         /\ ~MissingOrEmpty(body[r].website)
         /\ ~ToStringThrows(body[r].email)
         /\ ~EmailMatches(body[r].email))
        => /\ pc[r] = "done"
           /\ RespondedOnce(r, 400)
           /\ responses[r][1].success = FALSE
           /\ calls[r] = <<>>

\* the progress of a valid submission whose sends have all resolved so far
TwoSendsInOrder(r) ==
    /\ Awaiting(r) \/ pc[r] = "done"
    /\ Len(calls[r]) >= 1
    /\ IsNotification(calls[r][1])
    /\ calls[r][1].to = OperatorAddress
    /\ pc[r] = "await_notification" =>
          Len(calls[r]) = 1 /\ settled[r] = <<>> /\ responses[r] = <<>>
    /\ pc[r] = "await_confirmation" =>
          /\ Len(calls[r]) = 2
          /\ IsConfirmation(calls[r][2])
          /\ calls[r][2].to = body[r].email
          /\ settled[r] = <<TRUE>>
          /\ responses[r] = <<>>
    /\ pc[r] = "done" =>
          /\ Len(calls[r]) = 2
          /\ IsConfirmation(calls[r][2])
          /\ calls[r][2].to = body[r].email
          /\ settled[r] = <<TRUE, TRUE>>
          /\ RespondedOnce(r, 200)
          /\ responses[r][1].success = TRUE

\* C3: a valid submission handled while the transport succeeds makes exactly
\* two sendMail calls, the notification to the operator address and then the
\* confirmation to the submitter's email; the confirmation is not called
\* before the notification resolved, and 200 is sent after both resolved.
C3_TwoSendsInOrder ==
    \A r \in Requests :
        (/\ Arrived(r)
         /\ ValidSubmission(body[r])
         /\ transportUp
         /\ AllResolved(r))
        => TwoSendsInOrder(r)

\* C3 restricted to bodies whose fields all have a string conversion, for
\* every body that passes validation: what the handler does guarantee.
C3_ConvertibleTwoSendsInOrder ==
    \A r \in Requests :
        (/\ Arrived(r) /\ PassesValidation(body[r]) /\ AllResolved(r)
         /\ Convertible(body[r]))
        => TwoSendsInOrder(r)

\* C4: when the transport rejects the notification or the confirmation, the
\* response is 500 with success false and one fixed message, the same
\* whichever send failed, and no message is sent a second time.
C4_TransportFailureIs500 ==
    /\ \A r \in Requests :
          Failed(r) =>
            /\ pc[r] = "done"
            /\ RespondedOnce(r, 500)
            /\ responses[r][1].success = FALSE
            /\ responses[r][1].text
                 = "Internal server error. Please try again later."
    /\ \A r1, r2 \in Requests :
          Failed(r1) /\ Failed(r2) => responses[r1] = responses[r2]
    /\ \A r \in Requests :
          /\ Cardinality({i \in 1..Len(calls[r]) : IsNotification(calls[r][i])}) <= 1
          /\ Cardinality({i \in 1..Len(calls[r]) : IsConfirmation(calls[r][i])}) <= 1
          /\ Len(settled[r]) <= Len(calls[r])

\* one request failed at the notification and another at the confirmation
C4_Witness ==
    \E r1, r2 \in Requests :
        /\ settled[r1] = <<FALSE>> /\ RespondedOnce(r1, 500)
        /\ settled[r2] = <<TRUE, FALSE>> /\ RespondedOnce(r2, 500)

\* C5: when the notification send fails, the confirmation is never attempted
\* and the request ends with 500.
C5_FirstFailureShortCircuits ==
    \A r \in Requests :
        (Len(settled[r]) >= 1 /\ ~settled[r][1])
        => /\ Len(calls[r]) = 1
           /\ IsNotification(calls[r][1])
           /\ settled[r] = <<FALSE>>
           /\ pc[r] = "done"
           /\ RespondedOnce(r, 500)

\* a valid submission whose notification was rejected
C5_Witness ==
    \E r \in Requests :
        /\ ValidSubmission(body[r])
        /\ settled[r] = <<FALSE>>
        /\ pc[r] = "done"

\* C6: GET /health can be served in every state, answers 200 with status
\* "ok" and a timestamp whatever the transport does, makes no sendMail call
\* and changes nothing else.
C6_HealthAlwaysOk ==
    /\ [](\A t \in Times : ENABLED Health(t))
    /\ [][healthResp' # healthResp =>
            /\ Len(healthResp') = 1
            /\ healthResp'[1].status = 200
            /\ healthResp'[1].state = "ok"
            /\ healthResp'[1].timestamp \in Times
            /\ UNCHANGED <<formVars, transportUp, recipientEmail>>]_vars

\* /health has answered while the transport is down and a send is in flight
C6_Witness ==
    /\ healthResp # <<>>
    /\ ~transportUp
    /\ \E r \in Requests : Awaiting(r)

\* everything the handler keeps for request r
RequestState(r) ==
    <<pc[r], body[r], calls[r], settled[r], responses[r], errlog[r]>>

\* C7: with requests interleaving at their awaits, each request's sends stay
\* ordered notification then confirmation and are built from its own body;
\* a step of one request changes nothing of another, no request waits for
\* another, and the same body with the same transport results gives the same
\* sends and response.
C7_RequestsIndependent ==
    /\ [](\A r \in Requests :
            /\ Len(calls[r]) <= 2
            /\ Len(calls[r]) >= 1 =>
                  /\ IsNotification(calls[r][1])
                  /\ calls[r][1].replyTo = body[r].email
            /\ Len(calls[r]) = 2 =>
                  /\ IsConfirmation(calls[r][2])
                  /\ calls[r][2].to = body[r].email
                  /\ Len(settled[r]) >= 1
                  /\ settled[r][1]
            /\ Awaiting(r) =>
                  ENABLED (SendMailResolves(r) \/ SendMailRejects(r)))
    /\ [](\A r1, r2 \in Requests :
            (/\ body[r1] = body[r2]
             /\ settled[r1] = settled[r2]
             /\ pc[r1] = pc[r2])
            => calls[r1] = calls[r2] /\ responses[r1] = responses[r2])
    /\ [][\A r, q \in Requests :
            (r # q /\ RequestState(r)' # RequestState(r))
            => RequestState(q)' = RequestState(q)]_vars

\* two requests with different submitters are in flight together, one
\* already at its confirmation
C7_Witness ==
    \E r1, r2 \in Requests :
        /\ pc[r1] = "await_confirmation"
        /\ pc[r2] = "await_notification"
        /\ body[r1].email # body[r2].email

\* C8: the same payload submitted twice is handled twice: the second
\* request's notification and confirmation are sent again, the same messages
\* as the first's, and never suppressed.
C8_NoDeduplication ==
    \A r1, r2 \in Requests :
        (r1 # r2 /\ Arrived(r1) /\ Arrived(r2) /\ body[r1] = body[r2])
        => /\ calls[r1] = <<>> <=> calls[r2] = <<>>
           /\ calls[r1] # <<>> => calls[r2][1] = calls[r1][1]
           /\ (Len(calls[r1]) = 2 /\ Len(settled[r2]) >= 1 /\ settled[r2][1])
                 => Len(calls[r2]) = 2 /\ calls[r2][2] = calls[r1][2]

\* the same valid payload went through twice, two sends each
C8_Witness ==
    \E r1, r2 \in Requests :
        /\ r1 # r2
        /\ body[r1] = body[r2]
        /\ ValidSubmission(body[r1])
        /\ pc[r1] = "done" /\ pc[r2] = "done"
        /\ Len(calls[r1]) = 2 /\ Len(calls[r2]) = 2

\* s is an initial part of t
IsPrefix(s, t) ==
    Len(s) <= Len(t) /\ \A i \in 1..Len(s) : s[i] = t[i]

\* C9: when the notification resolves and the confirmation is rejected, the
\* response is 500 and never 200, the notification remains sent, and nothing
\* more is sent for the request.
C9_NoPartialSuccess ==
    /\ [](\A r \in Requests :
            (Len(settled[r]) = 2 /\ settled[r][1] /\ ~settled[r][2])
            => /\ pc[r] = "done"
               /\ RespondedOnce(r, 500)
               /\ responses[r][1].success = FALSE
               /\ Len(calls[r]) = 2
               /\ IsNotification(calls[r][1])
               /\ IsConfirmation(calls[r][2]))
    /\ [][\A r \in Requests :
            /\ IsPrefix(calls[r], calls'[r])
            /\ IsPrefix(settled[r], settled'[r])
            /\ (Len(settled[r]) = 2 /\ ~settled[r][2]) =>
                  calls'[r] = calls[r] /\ responses'[r] = responses[r]]_vars

\* a request whose notification resolved and whose confirmation was rejected
C9_Witness ==
    \E r \in Requests :
        settled[r] = <<TRUE, FALSE>> /\ RespondedOnce(r, 500)

\* C10: a request whose sends have settled has exactly one response, no
\* request ever has two, the status is 200, 400 or 500, it is 200 only when
\* both sends resolved and 400 only when no send was attempted.
C10_ExactlyOneResponse ==
    \A r \in Requests :
        /\ Len(responses[r]) <= 1
        /\ (Arrived(r) /\ Len(settled[r]) = Len(calls[r])) =>
              Len(responses[r]) = 1
        /\ \A i \in 1..Len(responses[r]) :
              /\ responses[r][i].status \in {200, 400, 500}
              /\ responses[r][i].status = 200 =>
                    Len(calls[r]) = 2 /\ settled[r] = <<TRUE, TRUE>>
              /\ responses[r][i].status = 400 => calls[r] = <<>>

\* one request was answered 200 after both of its sends resolved
C10_Witness ==
    \E r \in Requests :
        RespondedOnce(r, 200) /\ settled[r] = <<TRUE, TRUE>>

====
